---- MODULE Spec2Model ----
(***************************************************************************)
(* The four-node research workflow of research.py (research -> formatter   *)
(* -> validator -> finalizer) and the node functions of agent_functions.py.*)
(*                                                                         *)
(* A text (a Python str) is a sequence of tokens.  A token is a piece of   *)
(* text that the string operations of the code never cut: one of the three *)
(* section markers, a white-space character, a URL head, or an ordinary    *)
(* character.  The three markers have no proper prefix that is also a      *)
(* suffix, so an occurrence of a marker never straddles two tokens.        *)
(***************************************************************************)
EXTENDS Integers, Sequences, FiniteSets, TLC

VARIABLES
    state,      \* the ResearchState channels of the running graph
    frontier,   \* nodes scheduled for the current superstep, not yet begun
    inflight,   \* nodes that have begun and wait for their completion
    result,     \* what run_research returns (Pending until it returns)
    trace       \* the observable call record: <<"start"|"end"|"raise", node, ...>>

vars == <<state, frontier, inflight, result, trace>>

----------------------------------------------------------------------------
(* Bounds of the model *)

MaxPipeLen == 1
MaxFormatLen == 7
MaxResearchLen == 7
MaxToolCalls == 1

----------------------------------------------------------------------------
(* Texts *)

EXECUTIVE_SUMMARY == "EXECUTIVE SUMMARY"
DETAILED_RESEARCH == "DETAILED RESEARCH"
INVESTMENT_OPPORTUNITIES == "INVESTMENT OPPORTUNITIES"

IsSpace(t) == t \in {" ", "\n", "\t"}

SeqsUpTo(S, n) == UNION {[1..k -> S] : k \in 0..n}

Contains(s, tok) == \E i \in 1..Len(s) : s[i] = tok

\* str.strip(): leading and trailing white space removed
RECURSIVE LStrip(_)
LStrip(s) == IF s /= <<>> /\ IsSpace(Head(s)) THEN LStrip(Tail(s)) ELSE s

RECURSIVE RStrip(_)
RStrip(s) ==
    IF s /= <<>> /\ IsSpace(s[Len(s)]) THEN RStrip(SubSeq(s, 1, Len(s) - 1)) ELSE s

Strip(s) == RStrip(LStrip(s))

\* the header left in the text
Remove_Nothing(s, tok) == s

\* str.replace(tok, ""): every occurrence of tok removed
Remove(s, tok) == SelectSeq(s, LAMBDA t : t /= tok)

\* str.split(sep): the pieces between the occurrences of sep, always at least one
RECURSIVE SplitAcc(_, _, _)
SplitAcc(s, sep, cur) ==
    IF s = <<>> THEN <<cur>>
    ELSE IF Head(s) = sep THEN <<cur>> \o SplitAcc(Tail(s), sep, <<>>)
    ELSE SplitAcc(Tail(s), sep, Append(cur, Head(s)))

Split(s, sep) == SplitAcc(s, sep, <<>>)

\* str.lower() on the tokens the validator looks for
LowerTok(t) ==
    CASE t = "Issue" -> "issue"
      [] t = "FLAGGED" -> "flagged"
      [] OTHER -> t

Lower(s) == [i \in 1..Len(s) |-> LowerTok(s[i])]

\* dict.get(key, default)
Get(d, k, default) == IF k \in DOMAIN d THEN d[k] ELSE default

EmptyDict == [k \in {} |-> <<>>]

----------------------------------------------------------------------------
(* Messages and the add_messages reducer of the "messages" channel *)

NoId == 0

HumanMessage(content) ==
    [id |-> NoId, type |-> "human", content |-> content, tool_calls |-> <<>>]

AIMessage(content, tool_calls) ==
    [id |-> NoId, type |-> "ai", content |-> content, tool_calls |-> tool_calls]

MaxId(ms) ==
    LET ids == {ms[i].id : i \in 1..Len(ms)} \cup {NoId}
    IN  CHOOSE m \in ids : \A k \in ids : k <= m

\* every message without an id gets a fresh one (uuid4 in the library)
RECURSIVE AssignIds(_, _)
AssignIds(ms, used) ==
    IF ms = <<>> THEN <<>>
    ELSE IF Head(ms).id = NoId
         THEN <<[Head(ms) EXCEPT !.id = used + 1]>> \o AssignIds(Tail(ms), used + 1)
         ELSE <<Head(ms)>> \o AssignIds(Tail(ms), used)

IndexOfId(ms, id) ==
    IF \E i \in 1..Len(ms) : ms[i].id = id
    THEN CHOOSE i \in 1..Len(ms) : ms[i].id = id
    ELSE 0

\* a message of right whose id is in left replaces it in place, any other is appended
RECURSIVE MergeById(_, _)
MergeById(left, right) ==
    IF right = <<>> THEN left
    ELSE LET m == Head(right)
             i == IndexOfId(left, m.id)
         IN  IF i > 0 THEN MergeById([left EXCEPT ![i] = m], Tail(right))
             ELSE MergeById(Append(left, m), Tail(right))

\* plain list concatenation as the reducer
add_messages_Concat(left, right) == left \o right

add_messages(left, right) ==
    MergeById(left, AssignIds(right, MaxId(left \o right)))

\* a node's partial update applied to the channels: "messages" through its
\* reducer, every other key overwritten, keys the update leaves out kept
ApplyUpdate(st, update) ==
    [f \in DOMAIN st |->
        IF f \notin DOMAIN update THEN st[f]
        ELSE IF f = "messages" THEN add_messages(st.messages, update.messages)
        ELSE update[f]]

----------------------------------------------------------------------------
(* research_agent *)

WEB_SEARCH_TOOL == "web_search_tool"
FACT_CHECK_TOOL == "fact_check_tool"

\* the tool name not looked at: every tool call counted as a web search
RECURSIVE ToolSources_AnyTool(_)
ToolSources_AnyTool(tool_calls) ==
    IF tool_calls = <<>> THEN <<>>
    ELSE << <<"Web search: ">> \o Get(Head(tool_calls).args, "query", <<"N/A">>) >>
         \o ToolSources_AnyTool(Tail(tool_calls))

\* "Web search: {query}" for every web_search_tool call, in order
RECURSIVE ToolSources(_)
ToolSources(tool_calls) ==
    IF tool_calls = <<>> THEN <<>>
    ELSE LET tc == Head(tool_calls)
         IN  (IF tc.name = WEB_SEARCH_TOOL
              THEN << <<"Web search: ">> \o Get(tc.args, "query", <<"N/A">>) >>
              ELSE <<>>)
             \o ToolSources(Tail(tool_calls))

\* the fallback entry forgotten
FallbackSources_None(sources, topic) == sources

\* if not sources: sources.append(f"Web search query: {topic}")
FallbackSources(sources, topic) ==
    IF sources = <<>> THEN << <<"Web search query: ">> \o topic >> ELSE sources

\* the url_pattern: a scheme head, then every following character that is
\* neither white space nor one of <>"{}|\^`[]
UrlHead(t) == t \in {"http://a", "https://a"}
UrlChar(t) == ~IsSpace(t) /\ t \notin {"<", ">"}

RECURSIVE UrlEnd(_, _)
UrlEnd(s, i) == IF i < Len(s) /\ UrlChar(s[i + 1]) THEN UrlEnd(s, i + 1) ELSE i

\* re.findall(url_pattern, text): the non-overlapping matches, left to right
RECURSIVE FindUrlsFrom(_, _)
FindUrlsFrom(s, i) ==
    IF i > Len(s) THEN <<>>
    ELSE IF UrlHead(s[i])
         THEN LET j == UrlEnd(s, i)
              IN  <<SubSeq(s, i, j)>> \o FindUrlsFrom(s, j + 1)
         ELSE FindUrlsFrom(s, i + 1)

FindUrls(s) == FindUrlsFrom(s, 1)

UrlLimit == 3

\* for url in urls[:3]: sources.append(f"Source: {url}")
UrlSources(content) ==
    LET urls == FindUrls(content)
        n    == IF Len(urls) < UrlLimit THEN Len(urls) ELSE UrlLimit
    IN  [i \in 1..n |-> <<"Source: ">> \o urls[i]]

ResearchSources(topic, response) ==
    FallbackSources(ToolSources(response.tool_calls), topic)
        \o UrlSources(response.content)

research_agent(st, response) ==
    [raw_research |-> response.content,
     sources      |-> ResearchSources(st.topic, response),
     messages     |-> Append(st.messages, response)]

----------------------------------------------------------------------------
(* formatter_agent *)

FormatSections(formatted_content) ==
    LET sections == Split(formatted_content, DETAILED_RESEARCH)
        summary  == IF Len(sections) > 0
                    THEN Strip(Remove(sections[1], EXECUTIVE_SUMMARY))
                    ELSE <<>>
    IN  IF Len(sections) > 1
        THEN LET detailed_section == sections[2]
             IN  IF Contains(detailed_section, INVESTMENT_OPPORTUNITIES)
                 THEN LET investment_split ==
                              Split(detailed_section, INVESTMENT_OPPORTUNITIES)
                      IN  [summary    |-> summary,
                           detailed   |-> Strip(investment_split[1]),
                           investment |-> IF Len(investment_split) > 1
                                          THEN Strip(investment_split[2])
                                          ELSE <<>>]
                 ELSE [summary    |-> summary,
                       detailed   |-> Strip(detailed_section),
                       investment |-> <<>>]
        ELSE [summary    |-> summary,
              detailed   |-> formatted_content,
              investment |-> <<>>]

\* the formatter also stores its answer as the research text
formatter_agent_OverwritesResearch(st, response) ==
    [formatted_content |-> FormatSections(response.content),
     raw_research      |-> response.content,
     messages          |-> Append(st.messages, response)]

formatter_agent(st, response) ==
    [formatted_content |-> FormatSections(response.content),
     messages          |-> Append(st.messages, response)]

----------------------------------------------------------------------------
(* validator_agent *)

ConfidenceScore == 8

ValidationIssues(validation_content) ==
    IF Contains(Lower(validation_content), "flagged")
       \/ Contains(Lower(validation_content), "issue")
    THEN << <<"Some claims may need verification">> >>
    ELSE <<>>

validator_agent(st, response, now) ==
    [validation_results |-> [report           |-> response.content,
                             confidence_score |-> ConfidenceScore,
                             timestamp        |-> now],
     validation_issues  |-> ValidationIssues(response.content),
     messages           |-> Append(st.messages, response)]

----------------------------------------------------------------------------
(* finalizer_agent *)

H_TITLE      == "# Research Report: "
H_SUMMARY    == "## Executive Summary"
H_DETAILED   == "## Detailed Research"
H_INVESTMENT == "## Investment Opportunities"
H_VALIDATION == "## Validation Report"
H_SOURCES    == "## Sources"
H_STATUS     == "## Validation Status"

\* chr(10).join(f"- {source}" for source in sources)
RECURSIVE BulletList(_)
BulletList(sources) ==
    IF sources = <<>> THEN <<>>
    ELSE <<"- ">> \o Head(sources)
         \o (IF Tail(sources) = <<>> THEN <<>> ELSE <<"\n">> \o BulletList(Tail(sources)))

SourcesBlock(sources) ==
    IF sources /= <<>> THEN BulletList(sources) ELSE <<"No sources listed">>

\* {validation_results.get('confidence_score', 'N/A')}
ShowScore(vr) ==
    IF "confidence_score" \in DOMAIN vr THEN ToString(vr.confidence_score) ELSE "N/A"

FinalReport(st) ==
    LET fc == st.formatted_content
        vr == st.validation_results
    IN  <<"\n", H_TITLE>> \o st.topic
        \o <<"\n", "\n", H_SUMMARY, "\n">>
        \o Get(fc, "summary", <<"No summary available">>)
        \o <<"\n", "\n", H_DETAILED, "\n">>
        \o Get(fc, "detailed", <<"No detailed content available">>)
        \o <<"\n", "\n", H_INVESTMENT, "\n">>
        \o Get(fc, "investment", <<"No investment opportunities identified">>)
        \o <<"\n", "\n", H_VALIDATION, "\n">>
        \o Get(vr, "report", <<"No validation available">>)
        \o <<"\n", "\n", H_SOURCES, "\n">>
        \o SourcesBlock(st.sources)
        \o <<"\n", "\n", H_STATUS, "\n", "- Confidence Score: ">>
        \o <<ShowScore(vr), "/10", "\n",
             "- Issues Found: ", ToString(Len(st.validation_issues)), "\n",
             "- Validation Date: ", Get(vr, "timestamp", "N/A")>>
        \o <<"\n", "\n", "---", "\n",
             "*Report generated by Multi-Agent Research System*", "\n">>

finalizer_agent(st) ==
    [final_output |-> FinalReport(st),
     messages     |-> Append(st.messages,
                             AIMessage(<<"Research report completed">>, <<>>))]

----------------------------------------------------------------------------
(* The graph of create_research_graph and the run of run_research *)

START == "__start__"
END == "__end__"

Nodes == {"research", "formatter", "validator", "finalizer"}

\* the nodes that call a model; the finalizer only renders
LLMNodes == {"research", "formatter", "validator"}

\* the formatter and validator edges exchanged
create_research_graph_Swapped ==
    {<<START, "research">>,
     <<"research", "validator">>,
     <<"validator", "formatter">>,
     <<"formatter", "finalizer">>,
     <<"finalizer", END>>}

\* the edge into the finalizer left out
create_research_graph_NoFinalizer ==
    {<<START, "research">>,
     <<"research", "formatter">>,
     <<"formatter", "validator">>,
     <<"validator", END>>}

create_research_graph ==
    {<<START, "research">>,
     <<"research", "formatter">>,
     <<"formatter", "validator">>,
     <<"validator", "finalizer">>,
     <<"finalizer", END>>}

Triggered(n) == {e[2] : e \in {d \in create_research_graph : d[1] = n}} \ {END}

Pending == [pending |-> TRUE]

\* return {"error": str(e)}
\* the channels handed back beside the error
ErrorResult_WithState(e) == [error |-> e, final_output |-> state.final_output]

ErrorResult(e) == [error |-> e]

initial_state(topic) ==
    [messages           |-> <<HumanMessage(<<"Research topic: ">> \o topic)>>,
     topic              |-> topic,
     raw_research       |-> <<>>,
     formatted_content  |-> EmptyDict,
     validation_results |-> EmptyDict,
     final_output       |-> <<>>,
     sources            |-> <<>>,
     validation_issues  |-> <<>>]

\* graph.invoke(initial_state): the input is written to the channels through
\* their reducers, then the nodes START points to are scheduled
Invoke(topic) ==
    LET input == initial_state(topic)
    IN  /\ state = [input EXCEPT !.messages = add_messages(<<>>, input.messages)]
        /\ frontier = Triggered(START)
        /\ inflight = {}
        /\ result = Pending
        /\ trace = <<>>

\* a scheduled node is called
Begin(n) ==
    /\ result = Pending
    /\ n \in frontier
    /\ frontier' = frontier \ {n}
    /\ inflight' = inflight \cup {n}
    /\ trace' = Append(trace, <<"start", n>>)
    /\ UNCHANGED <<state, result>>

\* node n returns `update`: it is applied to the channels and the nodes n
\* points to are scheduled; with nothing left to run, graph.invoke returns the
\* channel values and run_research returns them
Complete(n, update) ==
    /\ result = Pending
    /\ n \in inflight
    /\ state' = ApplyUpdate(state, update)
    /\ inflight' = inflight \ {n}
    /\ frontier' = frontier \cup Triggered(n)
    /\ trace' = Append(trace, <<"end", n>>)
    /\ result' = IF frontier' = {} /\ inflight' = {} THEN state' ELSE Pending

\* the model call of node n raises e: nothing catches it before run_research
Raise(n, e) ==
    /\ result = Pending
    /\ n \in inflight
    /\ n \in LLMNodes
    /\ result' = ErrorResult(e)
    /\ frontier' = {}
    /\ inflight' = {}
    /\ trace' = Append(trace, <<"raise", n, e>>)
    /\ UNCHANGED state

----------------------------------------------------------------------------
(* What the collaborators may answer: stub model responses, errors, clock *)

Topics == {<<"AI">>, <<"solar", " ", "power">>}

Errors == {<<"Connection error.">>, <<"Rate limit reached">>}

Clock == {"2025-01-01T09:00:00", "2025-06-30T17:30:00"}

ResearchAlphabet == {" ", "x", "https://a"}
FormatAlphabet ==
    {" ", "a", EXECUTIVE_SUMMARY, DETAILED_RESEARCH, INVESTMENT_OPPORTUNITIES}
ValidateAlphabet == {"ok", "Issue"}

ToolCallKinds ==
    {[name |-> WEB_SEARCH_TOOL, args |-> [query |-> <<"q1">>]],
     [name |-> WEB_SEARCH_TOOL, args |-> [q |-> <<"q1">>]],
     [name |-> FACT_CHECK_TOOL, args |-> [claim |-> <<"c1">>]]}

\* the whole pipeline is run on short answers
PipeResearchTexts == SeqsUpTo(ResearchAlphabet, MaxPipeLen)
PipeToolCalls == {<<>>} \cup {<<k>> : k \in ToolCallKinds}
PipeFormatTexts == SeqsUpTo(FormatAlphabet, MaxPipeLen)
PipeValidateTexts == SeqsUpTo(ValidateAlphabet, MaxPipeLen)

\* one stage alone is run on long answers
ResearchTexts == SeqsUpTo(ResearchAlphabet, MaxResearchLen)
ToolCallSeqs == SeqsUpTo(ToolCallKinds, MaxToolCalls)
FormatTexts == SeqsUpTo(FormatAlphabet, MaxFormatLen)

ResearchReturns(texts, calls) ==
    /\ "research" \in inflight
    /\ \E c \in texts, tc \in calls :
           Complete("research", research_agent(state, AIMessage(c, tc)))

FormatterReturns(texts) ==
    /\ "formatter" \in inflight
    /\ \E c \in texts :
           Complete("formatter", formatter_agent(state, AIMessage(c, <<>>)))

ValidatorReturns(texts) ==
    /\ "validator" \in inflight
    /\ \E c \in texts, now \in Clock :
           Complete("validator", validator_agent(state, AIMessage(c, <<>>), now))

FinalizerReturns == Complete("finalizer", finalizer_agent(state))

----------------------------------------------------------------------------
(* Spec: the whole run *)

Init == \E t \in Topics : Invoke(t)

Start == \E n \in Nodes : Begin(n)

Research == ResearchReturns(PipeResearchTexts, PipeToolCalls)

Formatter == FormatterReturns(PipeFormatTexts)

Validator == ValidatorReturns(PipeValidateTexts)

Finalizer == FinalizerReturns

CallFails == \E n \in LLMNodes, e \in Errors : Raise(n, e)

Next ==
    \/ Start
    \/ Research
    \/ Formatter
    \/ Validator
    \/ Finalizer
    \/ CallFails

Spec == Init /\ [][Next]_vars

(* SpecStub: the run with a Text Completion Service that always answers *)

NextStub ==
    \/ Start
    \/ Research
    \/ Formatter
    \/ Validator
    \/ Finalizer

SpecStub == Init /\ [][NextStub]_vars

(* SpecResearch: the Research stage alone, on long answers *)

StartResearch == Begin("research")

ResearchLong == ResearchReturns(ResearchTexts, ToolCallSeqs)

NextResearch ==
    \/ StartResearch
    \/ ResearchLong

SpecResearch == Init /\ [][NextResearch]_vars

(* SpecFormat: the run up to the Format stage, the Format answer long *)

ResearchShort == ResearchReturns({<<"x">>}, {<<>>})

StartFormatter == Begin("formatter")

FormatterLong == FormatterReturns(FormatTexts)

NextFormat ==
    \/ StartResearch
    \/ ResearchShort
    \/ StartFormatter
    \/ FormatterLong

SpecFormat == Init /\ [][NextFormat]_vars

----------------------------------------------------------------------------
(* What the call record shows *)

Pipeline == <<"research", "formatter", "validator", "finalizer">>

Position(n) == CHOOSE k \in 1..Len(Pipeline) : Pipeline[k] = n

Events(kind, n) == {i \in 1..Len(trace) : trace[i][1] = kind /\ trace[i][2] = n}

Started(n) == Events("start", n) /= {}
Ended(n) == Events("end", n) /= {}

Failed == "error" \in DOMAIN result
Succeeded == "final_output" \in DOMAIN result /\ ~Failed

----------------------------------------------------------------------------
(* C2: in every run the stages execute strictly in the order Research,     *)
(* Format, Validate, Finalize: a stage starts only right after its         *)
(* predecessor has completed, no two stages are active at the same time,   *)
(* and no stage executes more than once.                                   *)
C2_StrictOrder ==
    /\ Cardinality(inflight) <= 1
    /\ Cardinality(frontier \cup inflight) <= 1
    /\ \A n \in Nodes : Cardinality(Events("start", n)) <= 1
    /\ \A i \in 1..Len(trace) :
          trace[i][1] = "start" =>
              LET k == Position(trace[i][2])
              IN  IF k = 1 THEN i = 1
                  ELSE i > 1 /\ trace[i - 1] = <<"end", Pipeline[k - 1]>>

C2_Witness ==
    /\ Succeeded
    /\ \A n \in Nodes : Started(n) /\ Ended(n)

----------------------------------------------------------------------------
(* The state a failed model call leaves *)
LastEvent == trace[Len(trace)]

StoppedAtFailure ==
    Failed =>
        /\ trace /= <<>>
        /\ LastEvent[1] = "raise"
        /\ LastEvent[2] \in LLMNodes
        /\ Started(LastEvent[2])
        /\ frontier = {} /\ inflight = {}
        /\ ~ENABLED Next
        /\ \A n \in Nodes : Cardinality(Events("start", n)) <= 1
        /\ \A n \in Nodes : Started(n) => Position(n) <= Position(LastEvent[2])
        /\ \A n \in Nodes : Ended(n) => Position(n) < Position(LastEvent[2])
        /\ Cardinality({i \in 1..Len(trace) : trace[i][1] = "raise"}) = 1
        /\ "final_output" \notin DOMAIN result
        /\ result.error = LastEvent[3]

(* C1 (as amended): when the model call of stage S fails, the run stops at *)
(* once: nothing is scheduled or running any more, no stage after S was    *)
(* ever started, no stage was started twice, and run_research returns an   *)
(* error result that holds the underlying error message and nothing else   *)
(* (no report, and no stage name).                                         *)
C1_FailureStopsRun ==
    /\ StoppedAtFailure
    /\ Failed => DOMAIN result = {"error"}

C1_Witness ==
    /\ Failed
    /\ LastEvent[2] = "formatter"
    /\ Ended("research")

\* the names a result could carry for a stage: the node's and the spec's
StageNames(n) ==
    CASE n = "research"  -> {"research", "Research"}
      [] n = "formatter" -> {"formatter", "Format"}
      [] n = "validator" -> {"validator", "Validate"}
      [] OTHER           -> {"finalizer", "Finalize"}

CarriesStageName(r, n) ==
    \/ "stage" \in DOMAIN r /\ r.stage \in StageNames(n)
    \/ \E nm \in StageNames(n) : Contains(r.error, nm)

(* C1 as the spec states it: when the model call of stage S fails, the run *)
(* stops at once, no later stage executes, nothing is retried, and the     *)
(* error result carries the underlying message and the name of stage S.    *)
C1_Original ==
    /\ StoppedAtFailure
    /\ Failed => CarriesStageName(result, LastEvent[2])

----------------------------------------------------------------------------
(* The shape of the log and of a step on it *)
IsPrefix(a, b) == Len(a) <= Len(b) /\ SubSeq(b, 1, Len(a)) = a

CompletedStages == {n \in Nodes : Ended(n)}

LogEntry(n) == state.messages[1 + Position(n)]

LogShape ==
    /\ Len(state.messages) = 1 + Cardinality(CompletedStages)
    /\ state.messages[1].type = "human"
    /\ state.messages[1].content = <<"Research topic: ">> \o state.topic
    /\ \A i, j \in 1..Len(state.messages) :
          i /= j => state.messages[i].id /= state.messages[j].id
    /\ \A n \in CompletedStages : LogEntry(n).type = "ai"
    /\ Ended("research") => LogEntry("research").content = state.raw_research
    /\ Ended("validator") =>
          LogEntry("validator").content = state.validation_results.report
    /\ Ended("finalizer") =>
          LogEntry("finalizer").content = <<"Research report completed">>

LogStep ==
    /\ IsPrefix(state.messages, state'.messages)
    /\ Len(state'.messages) =
          Len(state.messages)
              + (IF trace' /= trace /\ trace'[Len(trace')][1] = "end" THEN 1 ELSE 0)

(* C6: the conversation log is append-only: in every step the previous log *)
(* is a prefix of the new one; a step that completes a stage appends       *)
(* exactly one entry and no other step changes the log; after k completed  *)
(* stages the log holds the initial entry plus k entries, which are the    *)
(* model responses of Research, Format and Validate and the completion     *)
(* marker of Finalize.                                                     *)
C6_LogAppendOnly == [](LogShape) /\ [][LogStep]_vars

C6_Witness ==
    /\ Len(state.messages) = 5
    /\ Ended("finalizer")

----------------------------------------------------------------------------
(* The fields each stage owns *)
Owned(n) ==
    CASE n = "research"  -> {"raw_research", "sources"}
      [] n = "formatter" -> {"formatted_content"}
      [] n = "validator" -> {"validation_results", "validation_issues"}
      [] n = "finalizer" -> {"final_output"}

DictFields == {"formatted_content", "validation_results"}

SameValue(f, a, b) ==
    IF f \in DictFields
    THEN DOMAIN a = DOMAIN b /\ \A k \in DOMAIN a : a[k] = b[k]
    ELSE a = b

CompletingNode ==
    IF trace' /= trace /\ trace'[Len(trace')][1] = "end"
    THEN {trace'[Len(trace')][2]}
    ELSE {}

OwnershipStep ==
    /\ state'.topic = state.topic
    /\ \A f \in DOMAIN state \ {"messages"} :
          ~SameValue(f, state[f], state'[f]) =>
              \E n \in CompletingNode : f \in Owned(n)

UnwrittenFields ==
    \A n \in Nodes : ~Ended(n) =>
        \A f \in Owned(n) :
            IF f \in DictFields THEN DOMAIN state[f] = {} ELSE state[f] = <<>>

(* C7: a step changes only the fields owned by the stage that completes in *)
(* it (Research: raw_research, sources; Format: formatted_content;         *)
(* Validate: validation_results, validation_issues; Finalize:              *)
(* final_output) and the log; topic never changes; a field whose owner has *)
(* not completed still holds its initial value.                            *)
C7_WriteOnceOwnership == [](UnwrittenFields) /\ [][OwnershipStep]_vars

C7_Witness ==
    /\ Ended("validator")
    /\ state.raw_research /= <<>>
    /\ state.formatted_content.detailed /= state.raw_research
    /\ state.validation_issues /= <<>>

----------------------------------------------------------------------------
(* C10: once Research has completed the sources list is never empty: its   *)
(* first entry is a "Web search: " entry or the fallback entry, and the    *)
(* report Finalize renders never shows "No sources listed".                *)
C10_SourcesNeverEmpty ==
    Ended("research") =>
        /\ state.sources /= <<>>
        /\ state.sources[1][1] \in {"Web search: ", "Web search query: "}
        /\ Ended("finalizer") =>
              /\ ~Contains(state.final_output, "No sources listed")
              /\ Contains(state.final_output, "- ")

C10_Witness ==
    /\ Ended("finalizer")
    /\ state.sources = << <<"Web search query: ">> \o state.topic >>

----------------------------------------------------------------------------
(* The rendered report *)

IndexOf(s, tok) == CHOOSE i \in 1..Len(s) : s[i] = tok

Occurrences(s, tok) == Cardinality({i \in 1..Len(s) : s[i] = tok})

\* the body of a section: what stands between the line of header h and the
\* blank line before the next header
SectionBody(report, h, next) ==
    SubSeq(report, IndexOf(report, h) + 2, IndexOf(report, next) - 3)

Headers == <<H_SUMMARY, H_DETAILED, H_INVESTMENT, H_VALIDATION, H_SOURCES, H_STATUS>>

HeadersInOrder(report) ==
    /\ \A k \in 1..Len(Headers) : Occurrences(report, Headers[k]) = 1
    /\ \A k \in 1..(Len(Headers) - 1) :
          IndexOf(report, Headers[k]) < IndexOf(report, Headers[k + 1])
    /\ \A k \in 1..Len(Headers) :
          /\ report[IndexOf(report, Headers[k]) - 1] = "\n"
          /\ report[IndexOf(report, Headers[k]) + 1] = "\n"

----------------------------------------------------------------------------
(* C4: whenever the state reaching Finalize has an empty summary, the body *)
(* of the Executive Summary section of the report is exactly "No summary   *)
(* available"; likewise for the detailed, investment and validation report *)
(* sections and their placeholders.                                        *)
C4_Placeholders ==
    Ended("finalizer") =>
        LET fc == state.formatted_content
            vr == state.validation_results
            r  == state.final_output
        IN  /\ fc.summary = <<>> =>
                  SectionBody(r, H_SUMMARY, H_DETAILED) = <<"No summary available">>
            /\ fc.detailed = <<>> =>
                  SectionBody(r, H_DETAILED, H_INVESTMENT)
                      = <<"No detailed content available">>
            /\ fc.investment = <<>> =>
                  SectionBody(r, H_INVESTMENT, H_VALIDATION)
                      = <<"No investment opportunities identified">>
            /\ vr.report = <<>> =>
                  SectionBody(r, H_VALIDATION, H_SOURCES) = <<"No validation available">>

----------------------------------------------------------------------------
(* The end of a run *)
Returned == "pending" \notin DOMAIN result

SuccessWithReport ==
    Returned =>
        /\ Succeeded
        /\ \A n \in Nodes : Cardinality(Events("end", n)) = 1
        /\ result.final_output /= <<>>
        /\ result.final_output = state.final_output
        /\ HeadersInOrder(result.final_output)

\* a scheduled node can be started; a node in flight gets its answer, the
\* sets of answers being non-empty
NeverStuck ==
    /\ Returned \/ ENABLED Start \/ inflight /= {}
    /\ Len(trace) <= 2 * Cardinality(Nodes)
    /\ Returned <=> Len(trace) = 2 * Cardinality(Nodes)

(* C9: with a Text Completion Service that always answers, the run cannot  *)
(* stop before it returns, every step adds one event to a call record of   *)
(* at most eight events, and what the run returns is a success: all four   *)
(* stages have completed, each once, final_output is written, and it holds *)
(* the six section headers in the order Executive Summary, Detailed        *)
(* Research, Investment Opportunities, Validation Report, Sources,         *)
(* Validation Status.                                                      *)
C9_RunCompletes ==
    /\ [](NeverStuck /\ SuccessWithReport)
    /\ [][Len(trace') = Len(trace) + 1]_vars

C9_Witness ==
    /\ Returned
    /\ Succeeded
    /\ HeadersInOrder(result.final_output)

----------------------------------------------------------------------------
(* The answer a completed stage got is the entry it appended to the log *)

ResearchAnswer == state.messages[2]
FormatAnswer == state.messages[3].content

NoWebSearch(tool_calls) ==
    \A i \in 1..Len(tool_calls) : tool_calls[i].name /= WEB_SEARCH_TOOL

FallbackEntry == <<"Web search query: ">> \o state.topic

----------------------------------------------------------------------------
(* C5 as the spec states it: when the model issued no web-search tool      *)
(* invocation, the sources list written by Research holds exactly one      *)
(* entry, "Web search query: {topic}".                                     *)
C5_Original ==
    (Ended("research") /\ NoWebSearch(ResearchAnswer.tool_calls)) =>
        state.sources = <<FallbackEntry>>

(* C5 (as amended): when the model issued no web-search tool invocation,   *)
(* the sources list written by Research begins with "Web search query:     *)
(* {topic}", which is its only entry that is not a "Source: {url}" entry;  *)
(* at most three such entries follow it, and none when the response text   *)
(* holds no URL.                                                           *)
C5_FallbackFirst ==
    (Ended("research") /\ NoWebSearch(ResearchAnswer.tool_calls)) =>
        /\ state.sources /= <<>>
        /\ state.sources[1] = FallbackEntry
        /\ Len(state.sources) <= 1 + UrlLimit
        /\ \A i \in 2..Len(state.sources) : state.sources[i][1] = "Source: "
        /\ (\A i \in 1..Len(ResearchAnswer.content) :
                ~UrlHead(ResearchAnswer.content[i]))
              => state.sources = <<FallbackEntry>>

C5_Witness ==
    /\ Ended("research")
    /\ ResearchAnswer.tool_calls /= <<>>
    /\ NoWebSearch(ResearchAnswer.tool_calls)
    /\ Len(state.sources) = 1 + UrlLimit
    /\ Occurrences(ResearchAnswer.content, "https://a") > UrlLimit

----------------------------------------------------------------------------
(* The markers of the Format stage *)
Markers == {EXECUTIVE_SUMMARY, DETAILED_RESEARCH, INVESTMENT_OPPORTUNITIES}

NoMarkers(text) == \A i \in 1..Len(text) : text[i] \notin Markers

(* C3: for every response text that holds none of the markers, the Format  *)
(* stage writes summary == "", investment == "" and detailed equal to the  *)
(* entire response text.                                                   *)
C3_Degradation ==
    (Ended("formatter") /\ NoMarkers(FormatAnswer)) =>
        /\ state.formatted_content.summary = <<>>
        /\ state.formatted_content.investment = <<>>
        /\ state.formatted_content.detailed = FormatAnswer

----------------------------------------------------------------------------
(* The response texts of C8: each marker once, EXECUTIVE SUMMARY before    *)
(* DETAILED RESEARCH before INVESTMENT OPPORTUNITIES; A, B and C are what  *)
(* follows each marker, up to the next one.                                *)
AllMarkersInOrder(text) ==
    /\ \A m \in Markers : Occurrences(text, m) = 1
    /\ IndexOf(text, EXECUTIVE_SUMMARY) < IndexOf(text, DETAILED_RESEARCH)
    /\ IndexOf(text, DETAILED_RESEARCH) < IndexOf(text, INVESTMENT_OPPORTUNITIES)

Preamble(text) == SubSeq(text, 1, IndexOf(text, EXECUTIVE_SUMMARY) - 1)
TextA(text) ==
    SubSeq(text, IndexOf(text, EXECUTIVE_SUMMARY) + 1, IndexOf(text, DETAILED_RESEARCH) - 1)
TextB(text) ==
    SubSeq(text, IndexOf(text, DETAILED_RESEARCH) + 1,
           IndexOf(text, INVESTMENT_OPPORTUNITIES) - 1)
TextC(text) == SubSeq(text, IndexOf(text, INVESTMENT_OPPORTUNITIES) + 1, Len(text))

Blank(text) == \A i \in 1..Len(text) : IsSpace(text[i])

\* t is s without its leading and trailing white space
IsTrimOf(t, s) ==
    /\ t = <<>> \/ (~IsSpace(t[1]) /\ ~IsSpace(t[Len(t)]))
    /\ \E i \in 0..Len(s) :
          /\ i + Len(t) <= Len(s)
          /\ SubSeq(s, i + 1, i + Len(t)) = t
          /\ Blank(SubSeq(s, 1, i))
          /\ Blank(SubSeq(s, i + Len(t) + 1, Len(s)))

SectionsAreABC(text) ==
    /\ IsTrimOf(state.formatted_content.summary, TextA(text))
    /\ IsTrimOf(state.formatted_content.detailed, TextB(text))
    /\ IsTrimOf(state.formatted_content.investment, TextC(text))

(* C8 as the spec states it: for every response text that holds the three  *)
(* markers in order (here: each once), each followed by a text A, B, C,    *)
(* the Format stage writes summary, detailed, investment equal to A, B, C, *)
(* trimmed.                                                                *)
C8_Original ==
    (Ended("formatter") /\ AllMarkersInOrder(FormatAnswer)) =>
        SectionsAreABC(FormatAnswer)

(* C8 (as amended): for every response text that holds each of the three   *)
(* markers once, in order, with nothing but white space before EXECUTIVE   *)
(* SUMMARY, the Format stage writes summary, detailed, investment equal to *)
(* A, B, C, trimmed.                                                       *)
C8_ExtractsABC ==
    (/\ Ended("formatter")
     /\ AllMarkersInOrder(FormatAnswer)
     /\ Blank(Preamble(FormatAnswer))) =>
        SectionsAreABC(FormatAnswer)

C8_Witness ==
    /\ Ended("formatter")
    /\ AllMarkersInOrder(FormatAnswer)
    /\ Blank(Preamble(FormatAnswer))
    /\ state.formatted_content.summary = <<"a">>
    /\ TextA(FormatAnswer) = <<" ", "a">>
    /\ state.formatted_content.detailed = <<"a">>
    /\ state.formatted_content.investment = <<"a">>

====
